---------------------------- MODULE Spec2Model ----------------------------
(***************************************************************************)
(* A model of genrex: the pattern tokenizer (lex_pattern), the recursive   *)
(* node generator (Token::generate) with its TokenContext, and the         *)
(* generator orchestrator (RegexGeneratorBuilder::build, the setters and   *)
(* RegexGenerator::generate_one).                                          *)
(*                                                                         *)
(* Text is a sequence of characters; a character is a one-character        *)
(* string.  String::len() is the UTF-8 byte length (ByteLen).  A random    *)
(* source is a tape of raw draws with a read position; gen_range maps the  *)
(* next raw draw into the requested range.  usize::MAX is USIZE_MAX.       *)
(***************************************************************************)
EXTENDS Integers, Sequences, FiniteSets, TLC

VARIABLES
    gen,      \* the RegexGenerator (re, config, tokens, ast), or the build error
    call,     \* progress of the generate_one call in flight and its result
    accepts,  \* answers the real validator has given so far (candidate -> BOOLEAN)
    ctx,      \* the TokenContext a direct caller of Token::generate holds, or the one
              \* of the token attempt in flight
    walk,     \* the last direct Token::generate call or the last token attempt: token,
              \* draws, context before, result
    batch,    \* progress of the generate_n call in flight and its result
    cli,      \* the last run of the command-line program: arguments, output, exit code
    twin      \* two generators built alike, each with its random source and its results

vars == <<gen, call, accepts, ctx, walk, batch, cli, twin>>

---------------------------------------------------------------------------
(* Bounds of the model *)

\* raw draws on a tape are 0 .. DrawMax - 1
DrawMax == 3
\* number of raw draws on a tape; further draws read 0
TapeLen == 3
\* number of raw draws one attempt of generate_one is given; further draws read 0
AttemptDraws == 2
\* number of command-line arguments of a run
MaxArgs == 3

---------------------------------------------------------------------------
(* Program constants *)

\* usize::MAX (the model's integers are 32 bits wide)
USIZE_MAX == 2147483647
\* const MAX_REPEAT inside Token::generate's Quantifier arm
MAX_REPEAT == 32
\* TokenContext::new() passes 32 to new_with_max_repeat
DEFAULT_MAX_REPEAT == 32
\* GeneratorConfig::default(): max_len and max_attempts
DEFAULT_MAX_LEN == 64
DEFAULT_MAX_ATTEMPTS == 10000

---------------------------------------------------------------------------
(* Text *)

\* characters whose UTF-8 encoding takes two bytes
TwoByteChars == {"é"}

Utf8Len(c) == IF c \in TwoByteChars THEN 2 ELSE 1

RECURSIVE ByteLen(_)
\* String::len(): the length in bytes
ByteLen(s) == IF s = <<>> THEN 0 ELSE Utf8Len(Head(s)) + ByteLen(Tail(s))

\* Option<T>: None is the empty sequence, Some(v) is <<v>>
None == <<>>
Some(v) == <<v>>
IsSome(o) == o # <<>>
Unwrap(o) == o[1]

Max2(a, b) == IF a >= b THEN a ELSE b
Min2(a, b) == IF a <= b THEN a ELSE b

\* usize::saturating_add
SaturatingAdd(a, b) == IF a > USIZE_MAX - b THEN USIZE_MAX ELSE a + b
\* usize::saturating_sub
SaturatingSub(a, b) == IF a < b THEN 0 ELSE a - b

---------------------------------------------------------------------------
(* enum Token *)

Literal(c) == [kind |-> "Literal", c |-> c]
Class(chars) == [kind |-> "Class", chars |-> chars]
NegatedClass(chars) == [kind |-> "NegatedClass", chars |-> chars]
Concatenation(tokens) == [kind |-> "Concatenation", tokens |-> tokens]
Alternation(choices) == [kind |-> "Alternation", choices |-> choices]
Quantifier(token, min, max, greedy) ==
    [kind |-> "Quantifier", token |-> token, min |-> min, max |-> max, greedy |-> greedy]
Group(token, idx) == [kind |-> "Group", token |-> token, idx |-> idx]
NonCapturingGroup(token) == [kind |-> "NonCapturingGroup", token |-> token]
Backreference(idx) == [kind |-> "Backreference", idx |-> idx]
AnchorStart == [kind |-> "AnchorStart"]
AnchorEnd == [kind |-> "AnchorEnd"]
WordBoundary == [kind |-> "WordBoundary"]
Wildcard == [kind |-> "Wildcard"]

---------------------------------------------------------------------------
(* The random source *)

NewRng(tape) == [tape |-> tape, pos |-> 1]

\* the next raw draw of the stream
RawDraw(rng) == IF rng.pos <= Len(rng.tape) THEN rng.tape[rng.pos] ELSE 0

Advance(rng) == [rng EXCEPT !.pos = @ + 1]

\* rng.gen_range(lo .. lo + n), n >= 1: the value drawn
GenRange(rng, lo, n) == lo + (RawDraw(rng) % n)

\* number of draws taken from the source so far
Drawn(rng) == rng.pos - 1

\* the draws of the tape that were taken
Consumed(rng) == SubSeq(rng.tape, 1, IF Drawn(rng) <= Len(rng.tape) THEN Drawn(rng) ELSE Len(rng.tape))

---------------------------------------------------------------------------
(* struct TokenContext *)

new_with_max_repeat(max_repeat) ==
    [max_repeat |-> max_repeat,
     captures |-> <<>>,
     unresolved_refs |-> <<>>,
     current_output_len |-> 0]

TokenContextNew == new_with_max_repeat(DEFAULT_MAX_REPEAT)

set_output_len(c, len) == [c EXCEPT !.current_output_len = len]

\* add_unresolved that records position 0 instead of the cursor
add_unresolved_AtZero(c, group_id) ==
    [c EXCEPT !.unresolved_refs = Append(@, <<0, group_id>>)]

add_unresolved(c, group_id) ==
    [c EXCEPT !.unresolved_refs = Append(@, <<c.current_output_len, group_id>>)]

\* Vec::resize(n, None) when the vector is shorter than n
ResizeNone(v, n) == [i \in 1..n |-> IF i <= Len(v) THEN v[i] ELSE None]

\* record_capture that keeps the text a slot already holds
record_capture_KeepFirst(c, group_id, s) ==
    IF group_id = 0
    THEN [c EXCEPT !.captures = Append(@, Some(s))]
    ELSE LET slot == SaturatingSub(group_id, 1)
             grown == IF Len(c.captures) <= slot
                      THEN ResizeNone(c.captures, slot + 1)
                      ELSE c.captures
         IN [c EXCEPT !.captures =
                [grown EXCEPT ![slot + 1] = IF IsSome(@) THEN @ ELSE Some(s)]]

\* record_capture that appends the text to what a slot already holds
record_capture_Appends(c, group_id, s) ==
    IF group_id = 0
    THEN [c EXCEPT !.captures = Append(@, Some(s))]
    ELSE LET slot == SaturatingSub(group_id, 1)
             grown == IF Len(c.captures) <= slot
                      THEN ResizeNone(c.captures, slot + 1)
                      ELSE c.captures
         IN [c EXCEPT !.captures =
                [grown EXCEPT ![slot + 1] = IF IsSome(@) THEN Some(Unwrap(@) \o s) ELSE Some(s)]]

record_capture(c, group_id, s) ==
    IF group_id = 0
    THEN [c EXCEPT !.captures = Append(@, Some(s))]
    ELSE LET slot == SaturatingSub(group_id, 1)
             grown == IF Len(c.captures) <= slot
                      THEN ResizeNone(c.captures, slot + 1)
                      ELSE c.captures
         IN [c EXCEPT !.captures = [grown EXCEPT ![slot + 1] = Some(s)]]

get_capture(c, group_id) ==
    LET slot == SaturatingSub(group_id, 1)
    IN IF slot < Len(c.captures) THEN c.captures[slot + 1] ELSE None


---------------------------------------------------------------------------
(* Token::generate *)

\* Result<String, GenrexError> together with the random source and the context
\* as the call leaves them
Ok(out, rng, c) == [ok |-> TRUE, err |-> "", out |-> out, rng |-> rng, ctx |-> c]
Err(kind, rng, c) == [ok |-> FALSE, err |-> kind, out |-> <<>>, rng |-> rng, ctx |-> c]

\* const ALPHABET of the Wildcard arm
ALPHABET ==
    <<"A","B","C","D","E","F","G","H","I","J","K","L","M","N","O","P","Q","R","S","T","U","V","W","X","Y","Z",
      "a","b","c","d","e","f","g","h","i","j","k","l","m","n","o","p","q","r","s","t","u","v","w","x","y","z",
      "0","1","2","3","4","5","6","7","8","9">>

RECURSIVE generate(_, _, _)
RECURSIVE GenConcatenation(_, _, _, _, _)
RECURSIVE GenRepeat(_, _, _, _, _)

GenLiteral(t, rng, c) == Ok(<<t.c>>, rng, c)

GenClass(t, rng, c) ==
    IF t.chars = <<>>
    THEN Err("Internal", rng, c)
    ELSE LET idx == GenRange(rng, 0, Len(t.chars))
         IN Ok(<<t.chars[idx + 1]>>, Advance(rng), c)

\* a NegatedClass arm that picks among the listed characters like the Class arm
GenNegatedClass_AsClass(t, rng, c) == GenClass(t, rng, c)

GenNegatedClass(t, rng, c) == Err("UnsupportedFeature", rng, c)

\* the loop of the Concatenation arm from child i on, out holding the text so far
GenConcatenation(tokens, i, out, rng, c) ==
    IF i > Len(tokens)
    THEN Ok(out, rng, c)
    ELSE LET r == generate(tokens[i], rng, set_output_len(c, ByteLen(out)))
         IN IF r.ok
            THEN GenConcatenation(tokens, i + 1, out \o r.out, r.rng, r.ctx)
            ELSE Err(r.err, r.rng, r.ctx)

\* an Alternation arm that yields empty text when there is no branch
GenAlternation_EmptyOk(t, rng, c) ==
    IF t.choices = <<>>
    THEN Ok(<<>>, rng, c)
    ELSE LET idx == GenRange(rng, 0, Len(t.choices))
         IN generate(t.choices[idx + 1], Advance(rng), set_output_len(c, 0))

\* an Alternation arm that walks every branch before it yields the chosen one
GenAlternation_WalksAll(t, rng, c) ==
    IF t.choices = <<>>
    THEN Err("Internal", rng, c)
    ELSE LET idx == GenRange(rng, 0, Len(t.choices))
             all == GenConcatenation(t.choices, 1, <<>>, Advance(rng), set_output_len(c, 0))
         IN generate(t.choices[idx + 1], Advance(rng), set_output_len(all.ctx, 0))

GenAlternation(t, rng, c) ==
    IF t.choices = <<>>
    THEN Err("Internal", rng, c)
    ELSE LET idx == GenRange(rng, 0, Len(t.choices))
         IN generate(t.choices[idx + 1], Advance(rng), set_output_len(c, 0))

\* an effective maximum that ignores a bounded max
EffectiveMax_IgnoresMax(min, max) == SaturatingAdd(min, MAX_REPEAT)

\* effective_max of the Quantifier arm
EffectiveMax(min, max) == IF max = USIZE_MAX THEN SaturatingAdd(min, MAX_REPEAT) ELSE max

\* the choice with the greedy and the lazy side exchanged
BiasedCount_Swapped(a, b, greedy) == IF greedy THEN Min2(a, b) ELSE Max2(a, b)

\* the greedy / lazy choice between the two samples
BiasedCount(a, b, greedy) == IF greedy THEN Max2(a, b) ELSE Min2(a, b)

\* count of the Quantifier arm (min <= max), with the random source after it
QuantifierCount(min, max, greedy, rng) ==
    IF min = max
    THEN [count |-> min, rng |-> rng]
    ELSE LET n == EffectiveMax(min, max) - min + 1
             a == GenRange(rng, min, n)
             b == GenRange(Advance(rng), min, n)
         IN [count |-> BiasedCount(a, b, greedy), rng |-> Advance(Advance(rng))]

\* the loop of the Quantifier arm with left iterations to go
GenRepeat(token, left, out, rng, c) ==
    IF left = 0
    THEN Ok(out, rng, c)
    ELSE LET r == generate(token, rng, set_output_len(c, ByteLen(out)))
         IN IF r.ok
            THEN GenRepeat(token, left - 1, out \o r.out, r.rng, r.ctx)
            ELSE Err(r.err, r.rng, r.ctx)

GenQuantifier(t, rng, c) ==
    IF t.min > t.max
    THEN Err("Internal", rng, c)
    ELSE LET q == QuantifierCount(t.min, t.max, t.greedy, rng)
         IN GenRepeat(t.token, q.count, <<>>, q.rng, c)

GenGroup(t, rng, c) ==
    LET r == generate(t.token, rng, set_output_len(c, 0))
    IN IF r.ok
       THEN Ok(r.out, r.rng, record_capture(r.ctx, t.idx, r.out))
       ELSE Err(r.err, r.rng, r.ctx)

GenNonCapturingGroup(t, rng, c) == generate(t.token, rng, set_output_len(c, 0))

\* a Backreference arm without the check for an empty capture table
GenBackreference_NoEmptyCheck(t, rng, c) ==
    IF t.idx = 0
    THEN Err("BackreferenceError", rng, c)
    ELSE IF IsSome(get_capture(c, t.idx))
    THEN Ok(Unwrap(get_capture(c, t.idx)), rng, c)
    ELSE Ok(<<>>, rng, add_unresolved(c, t.idx))

GenBackreference(t, rng, c) ==
    IF t.idx = 0
    THEN Err("BackreferenceError", rng, c)
    ELSE IF c.captures = <<>>
    THEN Err("BackreferenceError", rng, c)
    ELSE IF IsSome(get_capture(c, t.idx))
    THEN Ok(Unwrap(get_capture(c, t.idx)), rng, c)
    ELSE Ok(<<>>, rng, add_unresolved(c, t.idx))

GenWildcard(t, rng, c) ==
    LET idx == GenRange(rng, 0, Len(ALPHABET))
    IN Ok(<<ALPHABET[idx + 1]>>, Advance(rng), c)

generate(t, rng, c) ==
    CASE t.kind = "Literal" -> GenLiteral(t, rng, c)
      [] t.kind = "Class" -> GenClass(t, rng, c)
      [] t.kind = "NegatedClass" -> GenNegatedClass(t, rng, c)
      [] t.kind = "Concatenation" -> GenConcatenation(t.tokens, 1, <<>>, rng, c)
      [] t.kind = "Alternation" -> GenAlternation(t, rng, c)
      [] t.kind = "Quantifier" -> GenQuantifier(t, rng, c)
      [] t.kind = "Group" -> GenGroup(t, rng, c)
      [] t.kind = "NonCapturingGroup" -> GenNonCapturingGroup(t, rng, c)
      [] t.kind = "Backreference" -> GenBackreference(t, rng, c)
      [] t.kind \in {"AnchorStart", "AnchorEnd", "WordBoundary"} -> Ok(<<>>, rng, c)
      [] t.kind = "Wildcard" -> GenWildcard(t, rng, c)

---------------------------------------------------------------------------
(* lex_pattern *)

Digits == <<"0", "1", "2", "3", "4", "5", "6", "7", "8", "9">>

IsDigit(ch) == \E d \in 1..10 : Digits[d] = ch

\* char::to_digit(10) of a decimal digit
to_digit(ch) == (CHOOSE d \in 1..10 : Digits[d] = ch) - 1

RECURSIVE ParseDigits(_, _)
\* the digits of s read after acc; None on a character that is no digit and on overflow
ParseDigits(s, acc) ==
    IF s = <<>> THEN Some(acc)
    ELSE IF ~IsDigit(Head(s)) THEN None
    ELSE IF acc > (USIZE_MAX - to_digit(Head(s))) \div 10 THEN None
    ELSE ParseDigits(Tail(s), acc * 10 + to_digit(Head(s)))

\* str::parse::<usize>(): Some(value), or None for the Err cases
ParseUsize(s) ==
    LET body == IF s # <<>> /\ Head(s) = "+" THEN Tail(s) ELSE s
    IN IF body = <<>> THEN None ELSE ParseDigits(body, 0)

\* Result::unwrap_or
UnwrapOr(o, d) == IF IsSome(o) THEN Unwrap(o) ELSE d

\* the character sets of \d, \w and \s
DigitClass == Digits
WordClass ==
    <<"a","b","c","d","e","f","g","h","i","j","k","l","m","n","o","p","q","r","s","t","u","v","w","x","y","z",
      "A","B","C","D","E","F","G","H","I","J","K","L","M","N","O","P","Q","R","S","T","U","V","W","X","Y","Z",
      "0","1","2","3","4","5","6","7","8","9","_">>
\* space, tab, line feed, carriage return, vertical tab (written VT), form feed
SpaceClass == <<" ", "\t", "\n", "\r", "VT", "\f">>

\* one step of the scan: the index of the next character, the tokens and the
\* group counter after it, and whether the scan stops
Scan(i, tokens, ng) == [i |-> i, tokens |-> tokens, ng |-> ng, stop |-> FALSE]

\* Vec::pop: the vector without its last element
Popped(tokens) == SubSeq(tokens, 1, Len(tokens) - 1)
Last(tokens) == tokens[Len(tokens)]

RECURSIVE lex_pattern(_, _)
RECURSIVE LexLoop(_, _, _, _)
RECURSIVE ScanClass(_, _, _)
RECURSIVE ScanGroup(_, _, _, _)
RECURSIVE ScanUntil(_, _, _, _)

\* the inner loop of the '[' arm from index j on: the class and the next index
ScanClass(chars, j, class) ==
    IF j > Len(chars) THEN [class |-> class, i |-> j]
    ELSE IF chars[j] = "]" THEN [class |-> class, i |-> j + 1]
    ELSE ScanClass(chars, j + 1, Append(class, chars[j]))

LexClass(chars, i, tokens, ng) ==
    LET negated == i <= Len(chars) /\ chars[i] = "^"
        sc == ScanClass(chars, IF negated THEN i + 1 ELSE i, <<>>)
    IN Scan(sc.i,
            Append(tokens, IF negated THEN NegatedClass(sc.class) ELSE Class(sc.class)),
            ng)

\* the token of the escape \next
EscapeToken(next) ==
    CASE next = "b" -> WordBoundary
      [] next = "d" -> Class(DigitClass)
      [] next = "D" -> NegatedClass(DigitClass)
      [] next = "w" -> Class(WordClass)
      [] next = "W" -> NegatedClass(WordClass)
      [] next = "s" -> Class(SpaceClass)
      [] next = "S" -> NegatedClass(SpaceClass)
      [] IsDigit(next) /\ next # "0" -> Backreference(to_digit(next))
      [] OTHER -> Literal(next)

LexEscape(chars, i, tokens, ng) ==
    IF i <= Len(chars)
    THEN Scan(i + 1, Append(tokens, EscapeToken(chars[i])), ng)
    ELSE Scan(i, tokens, ng)

\* the depth-counting scan to the matching ')': the text inside and the next index
ScanGroup(chars, j, depth, group) ==
    IF j > Len(chars) THEN [group |-> group, i |-> j]
    ELSE IF chars[j] = "(" THEN ScanGroup(chars, j + 1, depth + 1, Append(group, "("))
    ELSE IF chars[j] = ")"
    THEN IF depth - 1 = 0
         THEN [group |-> group, i |-> j + 1]
         ELSE ScanGroup(chars, j + 1, depth - 1, Append(group, ")"))
    ELSE ScanGroup(chars, j + 1, depth, Append(group, chars[j]))

\* the '(' arm
LexGroup(chars, i, tokens, ng) ==
    LET group_id == ng
        sg == ScanGroup(chars, i, 1, <<>>)
        inner == lex_pattern(sg.group, ng + 1)
    IN Scan(sg.i,
            Append(tokens, Group(Concatenation(inner.tokens), group_id)),
            inner.next_group)

\* the "?:" branch of the '?' arm, i the index after the ':'
LexNonCapturing(chars, i, tokens, ng) ==
    LET sg == ScanGroup(chars, i, 1, <<>>)
        inner == lex_pattern(sg.group, ng)
    IN Scan(sg.i,
            Append(tokens, NonCapturingGroup(Concatenation(inner.tokens))),
            inner.next_group)

\* rewrap the last token as a quantifier; a '?' at index i marks it lazy and is consumed
LexQuantify(chars, i, tokens, ng, min, max) ==
    IF tokens = <<>>
    THEN Scan(i, tokens, ng)
    ELSE LET lazy == i <= Len(chars) /\ chars[i] = "?"
         IN Scan(IF lazy THEN i + 1 ELSE i,
                 Append(Popped(tokens), Quantifier(Last(tokens), min, max, ~lazy)),
                 ng)

\* the '?' arm
LexQuestion(chars, i, tokens, ng) ==
    IF i <= Len(chars) /\ chars[i] = ":"
    THEN LexNonCapturing(chars, i + 1, tokens, ng)
    ELSE LexQuantify(chars, i, tokens, ng, 0, 1)

\* collect characters from index j up to (not including) one of stops
ScanUntil(chars, j, stops, num) ==
    IF j > Len(chars) \/ chars[j] \in stops THEN [num |-> num, i |-> j]
    ELSE ScanUntil(chars, j + 1, stops, Append(num, chars[j]))

\* min and max of the '{' arm and the index after the bounds
BraceBounds(chars, i) ==
    LET n1 == ScanUntil(chars, i, {",", "}"}, <<>>)
        min == UnwrapOr(ParseUsize(n1.num), 0)
        comma == n1.i <= Len(chars) /\ chars[n1.i] = ","
        n2 == ScanUntil(chars, n1.i + 1, {"}"}, <<>>)
        max == IF ~comma THEN min
               ELSE IF n2.num # <<>> THEN UnwrapOr(ParseUsize(n2.num), min)
               ELSE USIZE_MAX
        j == IF comma THEN n2.i ELSE n1.i
    IN [min |-> min, max |-> max,
        i |-> IF j <= Len(chars) /\ chars[j] = "}" THEN j + 1 ELSE j]

\* the '{' arm
LexBrace(chars, i, tokens, ng) ==
    LET b == BraceBounds(chars, i)
    IN LexQuantify(chars, b.i, tokens, ng, b.min, b.max)

\* the '|' arm, were the branches of the remainder spliced into one choice list
LexAlternation_Flat(chars, i, tokens, ng) ==
    LET rest == SubSeq(chars, i, Len(chars))
        right == lex_pattern(rest, ng)
        more == IF Len(right.tokens) = 1 /\ right.tokens[1].kind = "Alternation"
                THEN right.tokens[1].choices
                ELSE <<Concatenation(right.tokens)>>
    IN [i |-> Len(chars) + 1,
        tokens |-> <<Alternation(<<Concatenation(tokens)>> \o more)>>,
        ng |-> right.next_group,
        stop |-> TRUE]

\* the '|' arm
LexAlternation(chars, i, tokens, ng) ==
    LET rest == SubSeq(chars, i, Len(chars))
        right == lex_pattern(rest, ng)
    IN [i |-> Len(chars) + 1,
        tokens |-> <<Alternation(<<Concatenation(tokens), Concatenation(right.tokens)>>)>>,
        ng |-> right.next_group,
        stop |-> TRUE]

\* the match on the character c at index i - 1
LexStep(chars, c, i, tokens, ng) ==
    CASE c = "[" -> LexClass(chars, i, tokens, ng)
      [] c = "." -> Scan(i, Append(tokens, Wildcard), ng)
      [] c = "^" -> Scan(i, Append(tokens, AnchorStart), ng)
      [] c = "$" -> Scan(i, Append(tokens, AnchorEnd), ng)
      [] c = "\\" -> LexEscape(chars, i, tokens, ng)
      [] c = "(" -> LexGroup(chars, i, tokens, ng)
      [] c = "?" -> LexQuestion(chars, i, tokens, ng)
      [] c = "*" -> LexQuantify(chars, i, tokens, ng, 0, USIZE_MAX)
      [] c = "+" -> LexQuantify(chars, i, tokens, ng, 1, USIZE_MAX)
      [] c = "{" -> LexBrace(chars, i, tokens, ng)
      [] c = "|" -> LexAlternation(chars, i, tokens, ng)
      [] OTHER -> Scan(i, Append(tokens, Literal(c)), ng)

\* the while loop of lex_pattern from index i on
LexLoop(chars, i, tokens, ng) ==
    IF i > Len(chars)
    THEN [tokens |-> tokens, next_group |-> ng]
    ELSE LET s == LexStep(chars, chars[i], i + 1, tokens, ng)
         IN IF s.stop
            THEN [tokens |-> s.tokens, next_group |-> s.ng]
            ELSE LexLoop(chars, s.i, s.tokens, s.ng)

\* lex_pattern(pattern, &mut next_group): the tokens and the counter afterwards
lex_pattern(pattern, next_group) == LexLoop(pattern, 1, <<>>, next_group)

---------------------------------------------------------------------------
(* enum AstNode and AstParser *)

AstSequence(nodes) == [kind |-> "Sequence", nodes |-> nodes]
AstAlternation(nodes) == [kind |-> "Alternation", nodes |-> nodes]
AstRepeat(node, min, max, greedy) ==
    [kind |-> "Repeat", node |-> node, min |-> min, max |-> max, greedy |-> greedy]
AstGroup(node) == [kind |-> "Group", node |-> node]
AstNonCapturingGroup(node) == [kind |-> "NonCapturingGroup", node |-> node]
AstBackreference == [kind |-> "Backreference"]
AstClass(chars) == [kind |-> "Class", chars |-> chars]
AstNegatedClass == [kind |-> "NegatedClass"]
AstLiteral(c) == [kind |-> "Literal", c |-> c]
AstAnchorStart == [kind |-> "AnchorStart"]
AstAnchorEnd == [kind |-> "AnchorEnd"]
AstWordBoundary == [kind |-> "WordBoundary"]
AstWildcard == [kind |-> "Wildcard"]

RECURSIVE parse(_)
RECURSIVE ParseSequenceLoop(_, _, _)
RECURSIVE ParseAlternationLoop(_, _, _)

\* AstParser::new(&[t]).parse().unwrap_or(AstNode::Literal(' '))
ParseOne(t) == UnwrapOr(parse(<<t>>), AstLiteral(" "))

peek_is_alternation(tokens, pos) == pos <= Len(tokens) /\ tokens[pos].kind = "Alternation"

is_end(tokens, pos) == pos > Len(tokens)

\* the node parse_atom builds for the token t
AtomNode(t) ==
    CASE t.kind = "Literal" -> AstLiteral(t.c)
      [] t.kind = "Class" -> AstClass(t.chars)
      [] t.kind = "NegatedClass" -> AstNegatedClass
      [] t.kind = "AnchorStart" -> AstAnchorStart
      [] t.kind = "AnchorEnd" -> AstAnchorEnd
      [] t.kind = "WordBoundary" -> AstWordBoundary
      [] t.kind = "Wildcard" -> AstWildcard
      [] t.kind = "Backreference" -> AstBackreference
      [] t.kind = "Group" -> AstGroup(ParseOne(t.token))
      [] t.kind = "NonCapturingGroup" -> AstNonCapturingGroup(ParseOne(t.token))
      [] t.kind = "Quantifier" -> AstRepeat(ParseOne(t.token), t.min, t.max, t.greedy)
      [] t.kind = "Concatenation" -> UnwrapOr(parse(t.tokens), AstLiteral(" "))
      [] t.kind = "Alternation" ->
            AstAlternation([i \in 1..Len(t.choices) |-> ParseOne(t.choices[i])])

\* the loop of parse_sequence at position pos with nodes collected so far
ParseSequenceLoop(tokens, pos, nodes) ==
    IF pos > Len(tokens)
    THEN [nodes |-> nodes, pos |-> pos]
    ELSE LET got == Append(nodes, AtomNode(tokens[pos]))
         IN IF peek_is_alternation(tokens, pos + 1) \/ is_end(tokens, pos + 1)
            THEN [nodes |-> got, pos |-> pos + 1]
            ELSE ParseSequenceLoop(tokens, pos + 1, got)

\* parse_sequence from pos: the node, if any, and the position after it
parse_sequence(tokens, pos) ==
    LET l == ParseSequenceLoop(tokens, pos, <<>>)
    IN [node |-> IF Len(l.nodes) = 1 THEN Some(l.nodes[1])
                 ELSE IF l.nodes # <<>> THEN Some(AstSequence(l.nodes))
                 ELSE None,
        pos |-> l.pos]

\* the while loop of parse_alternation: None when a branch fails to parse
ParseAlternationLoop(tokens, pos, branches) ==
    IF ~peek_is_alternation(tokens, pos)
    THEN Some(branches)
    ELSE LET sq == parse_sequence(tokens, pos + 1)
         IN IF IsSome(sq.node)
            THEN ParseAlternationLoop(tokens, sq.pos, Append(branches, Unwrap(sq.node)))
            ELSE None

parse_alternation(tokens) ==
    LET first == parse_sequence(tokens, 1)
    IN IF ~IsSome(first.node) THEN None
       ELSE LET branches == ParseAlternationLoop(tokens, first.pos, <<Unwrap(first.node)>>)
            IN IF ~IsSome(branches) THEN None
               ELSE IF Len(Unwrap(branches)) = 1 THEN Some(Unwrap(branches)[1])
               ELSE Some(AstAlternation(Unwrap(branches)))

\* AstParser::new(tokens).parse()
parse(tokens) == parse_alternation(tokens)

---------------------------------------------------------------------------
(* RegexGenerator::generate_from_ast: every error is GenError::NoMatch *)

RECURSIVE generate_from_ast(_, _, _)
RECURSIVE AstSequenceLoop(_, _, _, _, _)
RECURSIVE AstRepeatLoop(_, _, _, _, _)

AstSequenceLoop(nodes, i, out, rng, c) ==
    IF i > Len(nodes)
    THEN Ok(out, rng, c)
    ELSE LET r == generate_from_ast(nodes[i], rng, c)
         IN IF r.ok
            THEN AstSequenceLoop(nodes, i + 1, out \o r.out, r.rng, r.ctx)
            ELSE Err(r.err, r.rng, r.ctx)

AstRepeatLoop(node, left, out, rng, c) ==
    IF left = 0
    THEN Ok(out, rng, c)
    ELSE LET r == generate_from_ast(node, rng, c)
         IN IF r.ok
            THEN AstRepeatLoop(node, left - 1, out \o r.out, r.rng, r.ctx)
            ELSE Err(r.err, r.rng, r.ctx)

\* the Repeat arm: the effective maximum uses the context's max_repeat
AstRepeatGen(n, rng, c) ==
    IF n.min > n.max
    THEN Err("NoMatch", rng, c)
    ELSE LET effective_max == IF n.max = USIZE_MAX
                              THEN SaturatingAdd(n.min, c.max_repeat)
                              ELSE n.max
             span == effective_max - n.min + 1
             a == GenRange(rng, n.min, span)
             b == GenRange(Advance(rng), n.min, span)
         IN IF n.min = n.max
            THEN AstRepeatLoop(n.node, n.min, <<>>, rng, c)
            ELSE AstRepeatLoop(n.node, BiasedCount(a, b, n.greedy), <<>>,
                               Advance(Advance(rng)), c)

generate_from_ast(n, rng, c) ==
    CASE n.kind = "Sequence" -> AstSequenceLoop(n.nodes, 1, <<>>, rng, c)
      [] n.kind = "Alternation" ->
            IF n.nodes = <<>>
            THEN Ok(<<>>, rng, c)
            ELSE generate_from_ast(n.nodes[GenRange(rng, 0, Len(n.nodes)) + 1], Advance(rng), c)
      [] n.kind = "Repeat" -> AstRepeatGen(n, rng, c)
      [] n.kind \in {"Group", "NonCapturingGroup"} -> generate_from_ast(n.node, rng, c)
      [] n.kind = "Backreference" -> Err("NoMatch", rng, c)
      [] n.kind = "Class" ->
            IF n.chars = <<>>
            THEN Err("NoMatch", rng, c)
            ELSE Ok(<<n.chars[GenRange(rng, 0, Len(n.chars)) + 1]>>, Advance(rng), c)
      [] n.kind = "NegatedClass" -> Err("NoMatch", rng, c)
      [] n.kind = "Literal" -> Ok(<<n.c>>, rng, c)
      [] n.kind \in {"AnchorStart", "AnchorEnd", "WordBoundary"} -> Ok(<<>>, rng, c)
      [] n.kind = "Wildcard" -> Ok(<<ALPHABET[GenRange(rng, 0, Len(ALPHABET)) + 1]>>, Advance(rng), c)

---------------------------------------------------------------------------
(* The walk over the top-level tokens in RegexGenerator::generate_one *)

RECURSIVE WalkTokens(_, _, _, _, _)
\* the for loop over the token list from token i on: each fragment is pushed
\* onto out, the first node error ends the walk
WalkTokens(tokens, i, out, rng, c) ==
    IF i > Len(tokens)
    THEN Ok(out, rng, c)
    ELSE LET r == generate(tokens[i], rng, c)
         IN IF r.ok
            THEN WalkTokens(tokens, i + 1, out \o r.out, r.rng, r.ctx)
            ELSE Err(r.err, r.rng, r.ctx)

---------------------------------------------------------------------------
(* Inputs *)

\* the tapes a random source may deliver
Tapes == [1..TapeLen -> 0..(DrawMax - 1)]

\* quantifier bounds given to directly constructed Quantifier nodes
QuantBounds == (0..3) \cup {USIZE_MAX}

\* repetition bounds passed to TokenContext::new_with_max_repeat
MaxRepeats == {1}

\* trees handed directly to Token::generate
NodeTokens ==
    {Literal("x"), Literal("é"),
     Class(<<"a", "b", "c">>), Class(<<>>), Class(<<"é", "a">>),
     NegatedClass(<<"a", "b", "c">>), NegatedClass(<<>>),
     Alternation(<<Literal("x"), Literal("y")>>), Alternation(<<>>),
     Alternation(<<Group(Literal("x"), 1), Group(Literal("y"), 2)>>),
     Concatenation(<<Alternation(<<Group(Literal("x"), 1), Group(Literal("y"), 2)>>),
                     Backreference(1), Backreference(2)>>),
     Concatenation(<<Literal("a"), Literal("b"), Literal("c")>>),
     Concatenation(<<Literal("a"), Class(<<>>)>>),
     Group(Literal("g"), 1), Group(Class(<<"a", "b">>), 2),
     NonCapturingGroup(Literal("h")),
     Backreference(0), Backreference(1), Backreference(2),
     Concatenation(<<Group(Literal("a"), 1), Backreference(1)>>),
     Concatenation(<<Group(Class(<<"a", "b">>), 1), Backreference(1), Backreference(1)>>),
     Concatenation(<<Group(Class(<<"a", "é">>), 2), Backreference(2)>>),
     Concatenation(<<Literal("é"), Backreference(2), Group(Literal("a"), 1), Backreference(1)>>),
     Concatenation(<<Quantifier(Group(Class(<<"a", "b">>), 1), 2, 2, TRUE), Backreference(1)>>),
     AnchorStart, AnchorEnd, WordBoundary, Wildcard}
    \cup {Quantifier(Literal("z"), m, n, g) : m \in 0..3, n \in QuantBounds, g \in BOOLEAN}
    \cup {Quantifier(Class(<<"a", "b">>), 1, n, g) : n \in {2, USIZE_MAX}, g \in BOOLEAN}

\* pattern texts, as their characters
Patterns ==
    {<<>>,
     <<"x">>,
     <<"(", "?", ":", "a", ")">>,
     <<"?", ":", "a", ")">>,
     <<"a", "{", "2", ",", "4", "}">>,
     <<"a", "{", "3", ",", "1", "}">>,
     <<"a", "{", "2", "}">>,
     <<"(", "a", ")", "\\", "1">>,
     <<"(", "[", "a", "b", "]", ")", "\\", "1", "\\", "1">>,
     <<"\\", "1", "(", "a", ")">>,
     <<"(", "a", ")", "\\", "2">>,
     <<"[", "^", "a", "b", "c", "]">>,
     <<"a", "|", "b", "|", "c">>,
     <<"[", "a", "é", "]", "*", "?">>,
     <<"a", "+">>,
     <<"(", "?", ":", "a", ")", "(", "b", ")">>,
     <<"(", "(", "a", ")", "|", "(", "b", ")", ")", "(", "c", ")">>,
     <<"a", "?", ":", "b">>,
     <<"[", "]">>}

---------------------------------------------------------------------------
(* Direct use of the tokenizer and of Token::generate, as the unit tests do *)

\* the record of a call: what was generated, the draws it took, the context
\* it started in, and the result
Walked(src, pattern, tok, before, res) ==
    [src |-> src, pattern |-> pattern, tok |-> tok, tape |-> Consumed(res.rng),
     before |-> before, res |-> [res EXCEPT !.rng = Drawn(res.rng)]]

NoWalk == Walked("none", <<>>, <<>>, TokenContextNew, Ok(<<>>, NewRng(<<>>), TokenContextNew))

\* a context nothing has been recorded in
IsFresh(c) == c.captures = <<>> /\ c.unresolved_refs = <<>>

\* the generator's variables before any generator exists
NoGen == [built |-> FALSE]
NoCall == [pc |-> "idle"]
NoAccepts == [yes |-> {}, no |-> {}]
NoBatch == [pc |-> "idle"]
NoCli == [ran |-> FALSE]
NoTwin == [built |-> FALSE]

TokenInit ==
    /\ gen = NoGen
    /\ call = NoCall
    /\ accepts = NoAccepts
    /\ batch = NoBatch
    /\ cli = NoCli
    /\ twin = NoTwin
    /\ ctx = TokenContextNew
    /\ walk = NoWalk

\* let mut ctx = TokenContext::new()
NewContext ==
    /\ ctx' = TokenContextNew
    /\ walk' = NoWalk
    /\ UNCHANGED <<gen, call, accepts, batch, cli, twin>>

\* let mut ctx = TokenContext::new_with_max_repeat(r)
NewContextWithMaxRepeat ==
    /\ \E r \in MaxRepeats : ctx' = new_with_max_repeat(r)
    /\ walk' = NoWalk
    /\ UNCHANGED <<gen, call, accepts, batch, cli, twin>>

\* tok.generate(&mut rng, &mut ctx) on the context the caller holds: a new
\* context, or one in which a first call or walk has recorded captures
GenerateNode ==
    /\ \/ walk.src = "none"
       \/ IsFresh(walk.before) /\ ctx.captures # <<>>
    /\ \E t \in NodeTokens, tape \in Tapes :
          LET r == generate(t, NewRng(tape), ctx)
          IN /\ walk' = Walked("node", <<>>, t, ctx, r)
             /\ ctx' = r.ctx
    /\ UNCHANGED <<gen, call, accepts, batch, cli, twin>>

\* lex_pattern(p, &mut 1), then the tokens walked in order with a fresh context,
\* by a caller that has generated nothing yet
TokenizeAndWalk ==
    /\ walk.src = "none"
    /\ \E p \in Patterns, tape \in Tapes :
          LET lexed == lex_pattern(p, 1)
              r == WalkTokens(lexed.tokens, 1, <<>>, NewRng(tape), TokenContextNew)
          IN /\ walk' = Walked("pattern", p, lexed.tokens, TokenContextNew, r)
             /\ ctx' = r.ctx
    /\ UNCHANGED <<gen, call, accepts, batch, cli, twin>>

TokenNext ==
    \/ NewContext
    \/ NewContextWithMaxRepeat
    \/ GenerateNode
    \/ TokenizeAndWalk

TokenSpec == TokenInit /\ [][TokenNext]_vars

---------------------------------------------------------------------------
(* RegexGeneratorBuilder::build *)

RECURSIVE Subtokens(_)

\* the nodes of the tree under t, t included
Subtokens(t) ==
    {t} \cup
    CASE t.kind = "Concatenation" -> UNION {Subtokens(t.tokens[i]) : i \in 1..Len(t.tokens)}
      [] t.kind = "Alternation" -> UNION {Subtokens(t.choices[i]) : i \in 1..Len(t.choices)}
      [] t.kind \in {"Quantifier", "Group", "NonCapturingGroup"} -> Subtokens(t.token)
      [] OTHER -> {}

NodesOf(tokens) == UNION {Subtokens(tokens[i]) : i \in 1..Len(tokens)}

HasInvertedQuantifier(tokens) ==
    \E t \in NodesOf(tokens) : t.kind = "Quantifier" /\ t.min > t.max

HasBackreference(tokens) ==
    \E t \in NodesOf(tokens) : t.kind = "Backreference"

\* Regex::new(&pattern).is_ok(): the regex crate compiles the empty pattern,
\* compiles no back-reference and no repetition whose bounds are inverted; any
\* other pattern may or may not compile
RegexNewOk(pattern) ==
    LET tokens == lex_pattern(pattern, 1).tokens
    IN IF pattern = <<>> THEN {TRUE}
       ELSE IF HasBackreference(tokens) \/ HasInvertedQuantifier(tokens) THEN {FALSE}
       ELSE BOOLEAN

\* the patterns generators are built from
BuildPatterns ==
    {<<>>,
     <<"x">>,
     <<"a", "{", "2", ",", "4", "}">>,
     <<"a", "{", "3", ",", "1", "}">>,
     <<"(", "a", ")", "\\", "1">>,
     <<"\\", "1", "(", "a", ")">>,
     <<"[", "^", "a", "b", "c", "]">>,
     <<"a", "|", "b", "|", "c">>,
     <<"[", "a", "é", "]">>,
     <<"\\", "1", "\\", "1", "|", "(", "a", ")">>}

\* the draws one attempt of generate_one takes from the generator's random
\* source: no walk of a build pattern takes more than AttemptDraws
AttemptTapes == [1..AttemptDraws -> 0..(DrawMax - 1)]

\* GeneratorConfig
GeneratorConfig(a, b, n, t) ==
    [min_len |-> a, max_len |-> b, max_attempts |-> n, timeout |-> t]

\* the values the builder and the setters are given
MinLens == {0, 2}
MaxLens == {1, 4}
AttemptLimits == {0, 2}
Timeouts == {None, Some(0), Some(1)}

Configs ==
    {GeneratorConfig(a, b, n, t) : a \in MinLens, b \in MaxLens, n \in AttemptLimits, t \in Timeouts}

\* build with the permissive matcher substituted whenever the flag is set
build_FlagAlwaysPermissive(pattern, config, allow_backrefs, compiles) ==
    LET tokens == lex_pattern(pattern, 1).tokens
    IN IF ~allow_backrefs /\ ~compiles
       THEN [built |-> FALSE, err |-> "InvalidRegex", pattern |-> pattern,
             allow_backrefs |-> allow_backrefs, compiles |-> compiles]
       ELSE [built |-> TRUE,
             pattern |-> pattern,
             allow_backrefs |-> allow_backrefs,
             compiles |-> compiles,
             re |-> IF compiles /\ ~allow_backrefs THEN "pattern" ELSE "permissive",
             config |-> config,
             ast |-> IF tokens # <<>> THEN parse(tokens) ELSE None,
             tokens |-> IF tokens = <<>> THEN None ELSE Some(tokens)]

\* the value of builder.build(): a generator, or Err(GenError::InvalidRegex);
\* the record keeps what the builder was given (the pattern, the flag) and
\* whether Regex::new compiled the pattern
build(pattern, config, allow_backrefs, compiles) ==
    LET tokens == lex_pattern(pattern, 1).tokens
    IN IF ~allow_backrefs /\ ~compiles
       THEN [built |-> FALSE, err |-> "InvalidRegex", pattern |-> pattern,
             allow_backrefs |-> allow_backrefs, compiles |-> compiles]
       ELSE [built |-> TRUE,
             pattern |-> pattern,
             allow_backrefs |-> allow_backrefs,
             compiles |-> compiles,
             re |-> IF compiles THEN "pattern" ELSE "permissive",
             config |-> config,
             ast |-> IF tokens # <<>> THEN parse(tokens) ELSE None,
             tokens |-> IF tokens = <<>> THEN None ELSE Some(tokens)]

---------------------------------------------------------------------------
(* RegexGenerator: the setters and generate_one *)

\* whether the matcher accepts every text: the permissive matcher and the
\* compiled empty pattern do
AcceptsAll == gen.re = "permissive" \/ gen.pattern = <<>>

\* the answers self.re.is_match(s) can give: a compiled pattern answers the
\* same for the same text
is_match(s) ==
    IF AcceptsAll THEN {TRUE}
    ELSE IF s \in accepts.yes THEN {TRUE}
    ELSE IF s \in accepts.no THEN {FALSE}
    ELSE BOOLEAN

\* the answers of the compiled pattern seen so far, with the answer m on s
Answered(s, m) ==
    IF AcceptsAll THEN accepts
    ELSE IF m THEN [accepts EXCEPT !.yes = @ \cup {s}]
    ELSE [accepts EXCEPT !.no = @ \cup {s}]

\* the same test on the number of characters of s
InLenBounds_Chars(config, s) ==
    ~(Len(s) < config.min_len \/ Len(s) > config.max_len)

\* len < min_len || len > max_len, negated, on the byte length of s
InLenBounds(config, s) ==
    ~(ByteLen(s) < config.min_len \/ ByteLen(s) > config.max_len)

\* a deadline check that reads the clock whether or not a timeout is configured
DeadlineReached_Unconfigured(config) == BOOLEAN

\* the readings start.elapsed() >= timeout can give at a check
DeadlineReached(config) ==
    IF ~IsSome(config.timeout) THEN {FALSE}
    ELSE IF Unwrap(config.timeout) = 0 THEN {TRUE}
    ELSE BOOLEAN

NoResult == [ok |-> FALSE, err |-> "", out |-> <<>>]
Returned(out) == [ok |-> TRUE, err |-> "", out |-> out]
Failed(kind) == [ok |-> FALSE, err |-> kind, out |-> <<>>]

\* the position of a generate_one call: the tactic it is in, the attempts its
\* loop has made, the error of the last node that failed, and its result
InCall(pc, attempts, node_err, result) ==
    [pc |-> pc, attempts |-> attempts, node_err |-> node_err, result |-> result]

\* a token attempt that surfaces the node error and ends the call
Aborted_Surfaced(c, err) == InCall("done", c.attempts + 1, err, Failed(err))

\* the call after a token attempt a node error has aborted: the error is
\* dropped and the loop goes on (Err(_) => { ok = false; break; }, continue)
Aborted(c, err) == InCall("token", c.attempts + 1, err, NoResult)

\* where generate_one goes after the token loop
AfterTokenLoop == IF IsSome(gen.ast) THEN "legacy" ELSE "sample"

\* no call on the generator is in flight (every method takes &mut self)
Idle == gen.built /\ call.pc \in {"idle", "done"} /\ batch.pc # "run"

\* the first position of a generate_one call: the token loop when there are
\* tokens, else the legacy pass when there is a tree, else rejection sampling
Entered == InCall(IF IsSome(gen.tokens) THEN "token" ELSE AfterTokenLoop, 0, "", NoResult)

\* the numbers of strings generate_n is asked for
Counts == {0, 2}

\* the generate_n call with n strings asked for, its local vector out and its
\* result
InBatch(pc, n, out, result) == [pc |-> pc, n |-> n, out |-> out, result |-> result]

\* generate_n's value when a generate_one call fails: Err(e) => return Err(e)
BatchFailed(out, err) == [ok |-> FALSE, err |-> err, strings |-> <<>>]

\* generate_n's value after the loop: Ok(out)
BatchOk(out) == [ok |-> TRUE, err |-> "", strings |-> out]

Init ==
    /\ gen = NoGen
    /\ call = NoCall
    /\ accepts = NoAccepts
    /\ batch = NoBatch
    /\ cli = NoCli
    /\ twin = NoTwin
    /\ ctx = TokenContextNew
    /\ walk = NoWalk

\* RegexGenerator::builder(p).config(c)[.allow_backrefs()].build()
Build ==
    /\ gen = NoGen
    /\ \E p \in BuildPatterns, c \in Configs, allow_backrefs \in BOOLEAN :
          \E compiles \in RegexNewOk(p) :
             gen' = build(p, c, allow_backrefs, compiles)
    /\ UNCHANGED <<call, accepts, ctx, walk, batch, cli, twin>>

min_len ==
    /\ Idle
    /\ \E n \in MinLens : gen' = [gen EXCEPT !.config.min_len = n]
    /\ call' = NoCall
    /\ batch' = NoBatch
    /\ ctx' = TokenContextNew
    /\ walk' = NoWalk
    /\ UNCHANGED <<accepts, cli, twin>>

max_len ==
    /\ Idle
    /\ \E n \in MaxLens : gen' = [gen EXCEPT !.config.max_len = n]
    /\ call' = NoCall
    /\ batch' = NoBatch
    /\ ctx' = TokenContextNew
    /\ walk' = NoWalk
    /\ UNCHANGED <<accepts, cli, twin>>

max_attempts ==
    /\ Idle
    /\ \E n \in AttemptLimits : gen' = [gen EXCEPT !.config.max_attempts = n]
    /\ call' = NoCall
    /\ batch' = NoBatch
    /\ ctx' = TokenContextNew
    /\ walk' = NoWalk
    /\ UNCHANGED <<accepts, cli, twin>>

timeout_ms ==
    /\ Idle
    /\ \E t \in Timeouts : gen' = [gen EXCEPT !.config.timeout = t]
    /\ call' = NoCall
    /\ batch' = NoBatch
    /\ ctx' = TokenContextNew
    /\ walk' = NoWalk
    /\ UNCHANGED <<accepts, cli, twin>>

\* generate_one is called by the user of the generator; nothing is left of the
\* locals of the call before it
GenerateOne ==
    /\ Idle
    /\ call' = Entered
    /\ batch' = NoBatch
    /\ ctx' = TokenContextNew
    /\ walk' = NoWalk
    /\ UNCHANGED <<gen, accepts, cli, twin>>

\* generate_n(n) is called: with n = 0 the loop body never runs, else the
\* first generate_one call is entered
GenerateN ==
    /\ Idle
    /\ \E n \in Counts :
          IF n = 0
          THEN /\ batch' = InBatch("done", n, <<>>, BatchOk(<<>>))
               /\ call' = NoCall
          ELSE /\ batch' = InBatch("run", n, <<>>, BatchOk(<<>>))
               /\ call' = Entered
    /\ ctx' = TokenContextNew
    /\ walk' = NoWalk
    /\ UNCHANGED <<gen, accepts, cli, twin>>

\* the generate_one call of one iteration of generate_n has returned
BatchStep ==
    /\ batch.pc = "run"
    /\ call.pc = "done"
    /\ IF call.result.ok
       THEN LET out == Append(batch.out, call.result.out)
            IN IF Len(out) = batch.n
               THEN /\ batch' = InBatch("done", batch.n, out, BatchOk(out))
                    /\ UNCHANGED call
               ELSE /\ batch' = InBatch("run", batch.n, out, batch.result)
                    /\ call' = Entered
       ELSE /\ batch' = InBatch("done", batch.n, batch.out,
                                BatchFailed(batch.out, call.result.err))
            /\ UNCHANGED call
    /\ ctx' = TokenContextNew
    /\ walk' = NoWalk
    /\ UNCHANGED <<gen, accepts, cli, twin>>

\* the token loop ends: attempts used up, or the deadline reached; rejection
\* sampling would start with a counter and a clock of its own
TokenLoopExit ==
    /\ call.pc = "token"
    /\ \/ ~(call.attempts < gen.config.max_attempts)
       \/ TRUE \in DeadlineReached(gen.config)
    /\ call' = [call EXCEPT !.pc = AfterTokenLoop,
                            !.attempts = IF AfterTokenLoop = "sample" THEN 0 ELSE @]
    /\ UNCHANGED <<gen, accepts, ctx, walk, batch, cli, twin>>

\* a token attempt that goes on with the context the attempt before it left
AttemptContext_Reused(c) == c

\* let mut ctx = TokenContext::new() at the head of a token attempt; c is the
\* context the attempt before it left
AttemptContext(c) == TokenContextNew

\* the record of a token attempt: the context the attempt before it left, the
\* context it started with and its result
Attempted(prev, before, res) ==
    [src |-> "attempt", prev |-> prev, before |-> before,
     res |-> [ok |-> res.ok, err |-> res.err, out |-> res.out]]

\* one iteration of the token loop; ctx is the loop body's context as the
\* iteration leaves it
TokenAttempt ==
    /\ call.pc = "token"
    /\ call.attempts < gen.config.max_attempts
    /\ FALSE \in DeadlineReached(gen.config)
    /\ \E tape \in AttemptTapes :
          LET r == WalkTokens(Unwrap(gen.tokens), 1, <<>>, NewRng(tape), AttemptContext(ctx))
          IN /\ ctx' = r.ctx
             /\ walk' = Attempted(ctx, AttemptContext(ctx), r)
             /\ IF ~r.ok
                THEN /\ call' = Aborted(call, r.err)
                     /\ UNCHANGED accepts
                ELSE IF ~InLenBounds(gen.config, r.out)
                THEN /\ call' = InCall("token", call.attempts + 1, call.node_err, NoResult)
                     /\ UNCHANGED accepts
                ELSE \E m \in is_match(r.out) :
                        /\ accepts' = Answered(r.out, m)
                        /\ call' = IF m
                                   THEN InCall("done", call.attempts + 1, call.node_err, Returned(r.out))
                                   ELSE InCall("token", call.attempts + 1, call.node_err, NoResult)
    /\ UNCHANGED <<gen, batch, cli, twin>>

\* the single pass over the tree
LegacyPass ==
    /\ call.pc = "legacy"
    /\ \E tape \in AttemptTapes :
          LET r == generate_from_ast(Unwrap(gen.ast), NewRng(tape), TokenContextNew)
          IN IF ~r.ok
             THEN /\ call' = [call EXCEPT !.pc = "done", !.result = Failed(r.err)]
                  /\ UNCHANGED accepts
             ELSE IF ~InLenBounds(gen.config, r.out)
             THEN /\ call' = [call EXCEPT !.pc = "done", !.result = Failed("NoMatch")]
                  /\ UNCHANGED accepts
             ELSE \E m \in is_match(r.out) :
                     /\ accepts' = Answered(r.out, m)
                     /\ call' = [call EXCEPT !.pc = "done",
                                             !.result = IF m THEN Returned(r.out)
                                                        ELSE Failed("NoMatch")]
    /\ UNCHANGED <<gen, ctx, walk, batch, cli, twin>>

RECURSIVE SampleChars(_, _, _)

\* (0..len).map(|_| rng.sample(Alphanumeric) as char).collect()
SampleChars(len, out, rng) ==
    IF len = 0
    THEN [out |-> out, rng |-> rng]
    ELSE SampleChars(len - 1, Append(out, ALPHABET[GenRange(rng, 0, Len(ALPHABET)) + 1]),
                     Advance(rng))

\* the random probe of one iteration of rejection sampling
Probe(config, rng) ==
    IF config.max_len = config.min_len
    THEN SampleChars(config.min_len, <<>>, rng).out
    ELSE SampleChars(GenRange(rng, config.min_len, config.max_len - config.min_len + 1),
                     <<>>, Advance(rng)).out

\* the sampling loop ends: attempts used up, or the deadline reached
SampleLoopExit ==
    /\ call.pc = "sample"
    /\ \/ ~(call.attempts < gen.config.max_attempts)
       \/ TRUE \in DeadlineReached(gen.config)
    /\ call' = [call EXCEPT !.pc = "done", !.result = Failed("NoMatch")]
    /\ UNCHANGED <<gen, accepts, ctx, walk, batch, cli, twin>>

\* one iteration of rejection sampling; gen_range panics on an empty range
SampleAttempt ==
    /\ call.pc = "sample"
    /\ call.attempts < gen.config.max_attempts
    /\ FALSE \in DeadlineReached(gen.config)
    /\ IF gen.config.min_len > gen.config.max_len
       THEN /\ call' = InCall("done", call.attempts + 1, call.node_err, Failed("panic"))
            /\ UNCHANGED accepts
       ELSE \E tape \in AttemptTapes :
               LET s == Probe(gen.config, NewRng(tape))
               IN \E m \in is_match(s) :
                     /\ accepts' = Answered(s, m)
                     /\ call' = IF m
                                THEN InCall("done", call.attempts + 1, call.node_err, Returned(s))
                                ELSE InCall("sample", call.attempts + 1, call.node_err, NoResult)
    /\ UNCHANGED <<gen, ctx, walk, batch, cli, twin>>

Next ==
    \/ Build
    \/ min_len
    \/ max_len
    \/ max_attempts
    \/ timeout_ms
    \/ GenerateOne
    \/ GenerateN
    \/ BatchStep
    \/ TokenLoopExit
    \/ TokenAttempt
    \/ LegacyPass
    \/ SampleLoopExit
    \/ SampleAttempt

Spec == Init /\ [][Next]_vars

---------------------------------------------------------------------------
(* Two generators built alike: the same pattern, configuration and flag, and
   random sources that deliver the same draws. gen is the value build gives
   for both; each generator owns its random source, which it consumes across
   attempts and calls. The user makes every call on the first generator, then
   the same call on the second. *)

\* generate_one calls made on each generator
MaxCalls == 2

\* the patterns the two generators are built from
TwinPatterns ==
    {<<>>,
     <<"a", "|", "b", "|", "c">>,
     <<"a", "{", "2", ",", "4", "}">>,
     <<"\\", "1", "\\", "1", "|", "(", "a", ")">>}

\* configurations without a timeout
TwinConfigs == {c \in Configs : c.timeout = None}

\* one generator: the position of its generate_one call, the attempts of the
\* loop it is in, its random source, and the results of the calls it has made
Side(pc, attempts, rng, results) ==
    [pc |-> pc, attempts |-> attempts, rng |-> rng, results |-> results]

\* a call returns: the generator keeps its random source as the call left it
Finished(s, rng, result) == Side("idle", 0, rng, Append(s.results, result))

\* whether the loop the generator is in ends before another attempt, d being
\* the reading of start.elapsed() >= timeout
LoopEnds(s, d) == ~(s.attempts < gen.config.max_attempts) \/ d

\* the candidate the generator produces at its position, drawn from its own
\* random source: a token walk, the pass over the tree, or a random probe
Candidate(s) ==
    CASE s.pc = "token" ->
            LET r == WalkTokens(Unwrap(gen.tokens), 1, <<>>, s.rng, TokenContextNew)
            IN [ok |-> r.ok, err |-> r.err, out |-> r.out, rng |-> r.rng]
      [] s.pc = "legacy" ->
            LET r == generate_from_ast(Unwrap(gen.ast), s.rng, TokenContextNew)
            IN [ok |-> r.ok, err |-> r.err, out |-> r.out, rng |-> r.rng]
      [] s.pc = "sample" ->
            IF gen.config.max_len = gen.config.min_len
            THEN LET p == SampleChars(gen.config.min_len, <<>>, s.rng)
                 IN [ok |-> TRUE, err |-> "", out |-> p.out, rng |-> p.rng]
            ELSE IF gen.config.min_len > gen.config.max_len
            THEN [ok |-> FALSE, err |-> "panic", out |-> <<>>, rng |-> s.rng]
            ELSE LET len == GenRange(s.rng, gen.config.min_len,
                                     gen.config.max_len - gen.config.min_len + 1)
                     p == SampleChars(len, <<>>, Advance(s.rng))
                 IN [ok |-> TRUE, err |-> "", out |-> p.out, rng |-> p.rng]

\* whether the step at the generator's position asks self.re.is_match about
\* its candidate r
Consults(s, r, d) ==
    CASE s.pc = "token" -> ~LoopEnds(s, d) /\ r.ok /\ InLenBounds(gen.config, r.out)
      [] s.pc = "legacy" -> r.ok /\ InLenBounds(gen.config, r.out)
      [] s.pc = "sample" -> ~LoopEnds(s, d) /\ r.ok

\* the generator after the step at its position, r being its candidate and m
\* the matcher's answer where it is asked
AfterStep(s, r, d, m) ==
    LET again == [s EXCEPT !.attempts = @ + 1, !.rng = r.rng]
    IN CASE s.pc = "token" ->
               IF LoopEnds(s, d)
               THEN [s EXCEPT !.pc = AfterTokenLoop,
                              !.attempts = IF AfterTokenLoop = "sample" THEN 0 ELSE @]
               ELSE IF ~r.ok \/ ~InLenBounds(gen.config, r.out) THEN again
               ELSE IF m THEN Finished(s, r.rng, Returned(r.out))
               ELSE again
         [] s.pc = "legacy" ->
               IF ~r.ok THEN Finished(s, r.rng, Failed(r.err))
               ELSE IF ~InLenBounds(gen.config, r.out) THEN Finished(s, r.rng, Failed("NoMatch"))
               ELSE IF m THEN Finished(s, r.rng, Returned(r.out))
               ELSE Finished(s, r.rng, Failed("NoMatch"))
         [] s.pc = "sample" ->
               IF LoopEnds(s, d) THEN Finished(s, s.rng, Failed("NoMatch"))
               ELSE IF ~r.ok THEN Finished(s, r.rng, Failed(r.err))
               ELSE IF m THEN Finished(s, r.rng, Returned(r.out))
               ELSE again

TwinInit ==
    /\ gen = NoGen
    /\ call = NoCall
    /\ accepts = NoAccepts
    /\ ctx = TokenContextNew
    /\ walk = NoWalk
    /\ batch = NoBatch
    /\ cli = NoCli
    /\ twin = NoTwin

\* builder(p).config(c)[.allow_backrefs()].rng(..).build(), twice, with random
\* sources that deliver the same draws
TwinBuild ==
    /\ twin = NoTwin
    /\ \E p \in TwinPatterns, c \in TwinConfigs, allow_backrefs \in BOOLEAN, tape \in Tapes :
          \E compiles \in RegexNewOk(p) :
             /\ gen' = build(p, c, allow_backrefs, compiles)
             /\ twin' = [built |-> gen'.built,
                         a |-> Side("idle", 0, NewRng(tape), <<>>),
                         b |-> Side("idle", 0, NewRng(tape), <<>>)]
    /\ UNCHANGED <<call, accepts, ctx, walk, batch, cli>>

\* generate_one is called on the first generator, once the second has made
\* the calls made so far
FirstCall ==
    /\ twin.built
    /\ twin.a.pc = "idle" /\ twin.b.pc = "idle"
    /\ Len(twin.a.results) = Len(twin.b.results)
    /\ Len(twin.a.results) < MaxCalls
    /\ twin' = [twin EXCEPT !.a.pc = Entered.pc]
    /\ UNCHANGED <<gen, call, accepts, ctx, walk, batch, cli>>

\* the same call is made on the second generator
SecondCall ==
    /\ twin.built
    /\ twin.a.pc = "idle" /\ twin.b.pc = "idle"
    /\ Len(twin.b.results) < Len(twin.a.results)
    /\ twin' = [twin EXCEPT !.b.pc = Entered.pc]
    /\ UNCHANGED <<gen, call, accepts, ctx, walk, batch, cli>>

\* one step of the call in flight on the first generator
FirstStep ==
    /\ twin.built
    /\ twin.a.pc # "idle"
    /\ \E d \in DeadlineReached(gen.config) :
          LET r == Candidate(twin.a)
          IN IF Consults(twin.a, r, d)
             THEN \E m \in is_match(r.out) :
                     /\ accepts' = Answered(r.out, m)
                     /\ twin' = [twin EXCEPT !.a = AfterStep(twin.a, r, d, m)]
             ELSE /\ twin' = [twin EXCEPT !.a = AfterStep(twin.a, r, d, FALSE)]
                  /\ UNCHANGED accepts
    /\ UNCHANGED <<gen, call, ctx, walk, batch, cli>>

\* one step of the call in flight on the second generator
SecondStep ==
    /\ twin.built
    /\ twin.b.pc # "idle"
    /\ \E d \in DeadlineReached(gen.config) :
          LET r == Candidate(twin.b)
          IN IF Consults(twin.b, r, d)
             THEN \E m \in is_match(r.out) :
                     /\ accepts' = Answered(r.out, m)
                     /\ twin' = [twin EXCEPT !.b = AfterStep(twin.b, r, d, m)]
             ELSE /\ twin' = [twin EXCEPT !.b = AfterStep(twin.b, r, d, FALSE)]
                  /\ UNCHANGED accepts
    /\ UNCHANGED <<gen, call, ctx, walk, batch, cli>>

TwinNext ==
    \/ TwinBuild
    \/ FirstCall
    \/ SecondCall
    \/ FirstStep
    \/ SecondStep

TwinSpec == TwinInit /\ [][TwinNext]_vars

---------------------------------------------------------------------------
(* The command-line program, main.rs; an argument is its text *)

FlagN == <<"-", "-", "n">>
FlagSeed == <<"-", "-", "s", "e", "e", "d">>
FlagMin == <<"-", "-", "m", "i", "n">>
FlagMax == <<"-", "-", "m", "a", "x">>
FlagAttempts == <<"-", "-", "a", "t", "t", "e", "m", "p", "t", "s">>
FlagTimeoutMs == <<"-", "-", "t", "i", "m", "e", "o", "u", "t", "-", "m", "s">>
FlagMultiline == <<"-", "-", "m", "u", "l", "t", "i", "l", "i", "n", "e">>
FlagAllowBackrefs ==
    <<"-", "-", "a", "l", "l", "o", "w", "-", "b", "a", "c", "k", "r", "e", "f", "s">>
FlagVerbose == <<"-", "v">>

\* the local variables of main before the argument loop
DefaultOpts ==
    [n |-> 1, seed |-> None, min_len |-> None, max_len |-> None, max_attempts |-> None,
     timeout_ms |-> None, multiline |-> FALSE, allow_backrefs |-> FALSE, verbose |-> FALSE]

RECURSIVE CliArgs(_, _, _)

\* the argument loop from argument i on: the options, or the unknown argument;
\* a flag whose value is missing is skipped, a value that does not parse
\* gives the default (--n) or None
CliArgs(args, i, o) ==
    IF i > Len(args)
    THEN [ok |-> TRUE, opts |-> o]
    ELSE LET arg == args[i]
             has == i + 1 <= Len(args)
             v == ParseUsize(args[i + 1])
         IN CASE arg = FlagN ->
                   IF has THEN CliArgs(args, i + 2, [o EXCEPT !.n = UnwrapOr(v, 1)])
                   ELSE CliArgs(args, i + 1, o)
              [] arg = FlagSeed ->
                   IF has THEN CliArgs(args, i + 2, [o EXCEPT !.seed = v])
                   ELSE CliArgs(args, i + 1, o)
              [] arg = FlagMin ->
                   IF has THEN CliArgs(args, i + 2, [o EXCEPT !.min_len = v])
                   ELSE CliArgs(args, i + 1, o)
              [] arg = FlagMax ->
                   IF has THEN CliArgs(args, i + 2, [o EXCEPT !.max_len = v])
                   ELSE CliArgs(args, i + 1, o)
              [] arg = FlagAttempts ->
                   IF has THEN CliArgs(args, i + 2, [o EXCEPT !.max_attempts = v])
                   ELSE CliArgs(args, i + 1, o)
              [] arg = FlagTimeoutMs ->
                   IF has THEN CliArgs(args, i + 2, [o EXCEPT !.timeout_ms = v])
                   ELSE CliArgs(args, i + 1, o)
              [] arg = FlagMultiline -> CliArgs(args, i + 1, [o EXCEPT !.multiline = TRUE])
              [] arg = FlagAllowBackrefs ->
                   CliArgs(args, i + 1, [o EXCEPT !.allow_backrefs = TRUE])
              [] arg = FlagVerbose -> CliArgs(args, i + 1, [o EXCEPT !.verbose = TRUE])
              [] OTHER -> [ok |-> FALSE, opts |-> o]

\* the configuration main gives the builder: the default one unless a length,
\* attempt or timeout option was given
CliConfig(o) ==
    IF IsSome(o.min_len) \/ IsSome(o.max_len) \/ IsSome(o.max_attempts) \/ IsSome(o.timeout_ms)
    THEN GeneratorConfig(UnwrapOr(o.min_len, 0), UnwrapOr(o.max_len, DEFAULT_MAX_LEN),
                         UnwrapOr(o.max_attempts, DEFAULT_MAX_ATTEMPTS), o.timeout_ms)
    ELSE GeneratorConfig(0, DEFAULT_MAX_LEN, DEFAULT_MAX_ATTEMPTS, None)

\* the arguments a run may be given
CliWords ==
    {<<"x">>, <<"\\", "1">>, FlagN, FlagMin, FlagAllowBackrefs,
     <<"-", "-", "b", "o", "g", "u", "s">>, <<"2">>, <<"a", "b">>}

ArgLists == UNION {[1..k -> CliWords] : k \in 0..MaxArgs}

\* a run of main: where it is, its arguments and options, the lines printed,
\* whether build or a generation failed, and the exit code
InCli(pc, args, opts, printed, failed, code) ==
    [ran |-> TRUE, pc |-> pc, args |-> args, opts |-> opts, printed |-> printed,
     failed |-> failed, code |-> code]

CliInit ==
    /\ gen = NoGen
    /\ call = NoCall
    /\ accepts = NoAccepts
    /\ ctx = TokenContextNew
    /\ walk = NoWalk
    /\ batch = NoBatch
    /\ cli = NoCli
    /\ twin = NoTwin

\* main up to the end of the argument loop
CliParse ==
    /\ cli = NoCli
    /\ \E args \in ArgLists :
          IF args = <<>>
          THEN cli' = InCli("exit", args, DefaultOpts, 0, FALSE, Some(2))
          ELSE LET r == CliArgs(args, 2, DefaultOpts)
               IN IF r.ok
                  THEN cli' = InCli("build", args, r.opts, 0, FALSE, None)
                  ELSE cli' = InCli("exit", args, r.opts, 0, FALSE, Some(2))
    /\ UNCHANGED <<gen, call, accepts, ctx, walk, batch, twin>>

\* the builder is configured and built
CliBuild ==
    /\ cli.ran
    /\ cli.pc = "build"
    /\ \E compiles \in RegexNewOk(cli.args[1]) :
          LET g == build(cli.args[1], CliConfig(cli.opts), cli.opts.allow_backrefs, compiles)
          IN /\ gen' = g
             /\ cli' = IF g.built
                       THEN [cli EXCEPT !.pc = "loop"]
                       ELSE [cli EXCEPT !.pc = "exit", !.failed = TRUE, !.code = Some(1)]
    /\ UNCHANGED <<call, accepts, ctx, walk, batch, twin>>

\* one iteration of the output loop: generate_one returns a string, which is
\* printed on a line, or an error
CliGenerate ==
    /\ cli.ran
    /\ cli.pc = "loop"
    /\ cli.printed < cli.opts.n
    /\ \E ok \in BOOLEAN :
          cli' = IF ok
                 THEN [cli EXCEPT !.printed = @ + 1]
                 ELSE [cli EXCEPT !.pc = "exit", !.failed = TRUE, !.code = Some(1)]
    /\ UNCHANGED <<gen, call, accepts, ctx, walk, batch, twin>>

\* main returns after the loop
CliReturn ==
    /\ cli.ran
    /\ cli.pc = "loop"
    /\ ~(cli.printed < cli.opts.n)
    /\ cli' = [cli EXCEPT !.pc = "exit", !.code = Some(0)]
    /\ UNCHANGED <<gen, call, accepts, ctx, walk, batch, twin>>

CliNext ==
    \/ CliParse
    \/ CliBuild
    \/ CliGenerate
    \/ CliReturn

CliSpec == CliInit /\ [][CliNext]_vars

---------------------------------------------------------------------------
(* Properties of Token::generate and of the tokenizer, checked under TokenSpec *)

\* s repeated k times
RECURSIVE Repeated(_, _)
Repeated(s, k) == IF k = 0 THEN <<>> ELSE s \o Repeated(s, k - 1)

IsNodeWalk(kind) == walk.src = "node" /\ walk.tok.kind = kind

IsPatternWalk(p) == walk.src = "pattern" /\ walk.pattern = p

\* the token list of a walked Concatenation or of a walked pattern
WalkedList ==
    IF walk.src = "pattern" THEN walk.tok
    ELSE IF IsNodeWalk("Concatenation") THEN walk.tok.tokens
    ELSE <<>>

\* a Group with identity id >= 1 followed only by Backreference(id)
GroupThenBackrefs(tokens) ==
    /\ Len(tokens) >= 2
    /\ tokens[1].kind = "Group"
    /\ tokens[1].idx >= 1
    /\ \A i \in 2..Len(tokens) : tokens[i] = Backreference(tokens[1].idx)

PatGroupBackref == <<"(", "a", ")", "\\", "1">>
PatNonCapturing == <<"(", "?", ":", "a", ")">>
PatQuantifier24 == <<"a", "{", "2", ",", "4", "}">>
PatForwardRef == <<"\\", "1", "(", "a", ")">>

TreeGroupBackref == Concatenation(<<Group(Literal("a"), 1), Backreference(1)>>)
TreeClassBackrefs ==
    Concatenation(<<Group(Class(<<"a", "b">>), 1), Backreference(1), Backreference(1)>>)

\* C2: a back-reference generated after its group has completed in the same walk
\* yields exactly the text the group produced: [Group(Literal a, 1), Backreference(1)]
\* yields "aa", [Group(Class{a,b}, 1), Backreference(1), Backreference(1)] yields
\* "aaa" or "bbb", and every walk of a group followed by back-references to it
\* yields the captured text once per token.
C2_BackwardBackreference ==
    /\ (walk.src = "node" /\ walk.tok = TreeGroupBackref)
          => walk.res.ok /\ walk.res.out = <<"a", "a">>
    /\ (walk.src = "node" /\ walk.tok = TreeClassBackrefs)
          => walk.res.ok /\ walk.res.out \in {<<"a", "a", "a">>, <<"b", "b", "b">>}
    /\ IsPatternWalk(PatGroupBackref) => walk.res.ok /\ walk.res.out = <<"a", "a">>
    /\ (GroupThenBackrefs(WalkedList) /\ walk.res.ok)
          => LET g == get_capture(walk.res.ctx, WalkedList[1].idx)
             IN IsSome(g) /\ walk.res.out = Repeated(Unwrap(g), Len(WalkedList))

\* the class tree walked in a context that held an older capture of group 1
C2_Witness ==
    /\ walk.src = "node" /\ walk.tok = TreeClassBackrefs
    /\ get_capture(walk.before, 1) = Some(<<"a">>)
    /\ walk.res.out = <<"b", "b", "b">>

\* C3: tokenizing (?:a) with the group counter at 1 and walking the tree with a
\* fresh context yields "a", allocates no group identity and leaves the capture
\* table empty.
C3_NonCapturingRecordsNothing ==
    IsPatternWalk(PatNonCapturing)
       => /\ walk.res.ok /\ walk.res.out = <<"a">>
          /\ lex_pattern(PatNonCapturing, 1).next_group = 1
          /\ walk.res.ctx.captures = <<>>

\* C4: a Quantifier with a bounded max and min <= max repeats its node k times,
\* min <= k <= max (so exactly min times when min = max), and the tree tokenized
\* from a{2,4} generates 2 to 4 characters, all 'a'.
C4_BoundedQuantifierCount ==
    /\ (/\ IsNodeWalk("Quantifier")
        /\ walk.tok.max # USIZE_MAX /\ walk.tok.min <= walk.tok.max
        /\ walk.tok.token.kind \in {"Literal", "Class"})
          => LET k == Len(walk.res.out)
                 q == QuantifierCount(walk.tok.min, walk.tok.max, walk.tok.greedy, NewRng(walk.tape))
             IN /\ walk.res.ok
                /\ k = q.count
                /\ walk.tok.min <= k /\ k <= walk.tok.max
                /\ \A i \in 1..k :
                      IF walk.tok.token.kind = "Literal"
                      THEN walk.res.out[i] = walk.tok.token.c
                      ELSE \E j \in 1..Len(walk.tok.token.chars) :
                              walk.res.out[i] = walk.tok.token.chars[j]
    /\ IsPatternWalk(PatQuantifier24)
          => /\ walk.tok = <<Quantifier(Literal("a"), 2, 4, TRUE)>>
             /\ walk.res.ok
             /\ Len(walk.res.out) \in 2..4
             /\ \A i \in 1..Len(walk.res.out) : walk.res.out[i] = "a"

\* a{2,4} tokenized and walked to four characters
C4_Witness == IsPatternWalk(PatQuantifier24) /\ walk.res.out = <<"a", "a", "a", "a">>

\* C6: Token::generate on a NegatedClass fails with UnsupportedFeature for every
\* excluded set, random source and context, and returns no text.
C6_NegatedClassUnsupported ==
    IsNodeWalk("NegatedClass")
       => ~walk.res.ok /\ walk.res.err = "UnsupportedFeature" /\ walk.res.out = <<>>

\* a negated class with a non-empty excluded set, generated in a context that
\* holds captures
C6_Witness ==
    /\ IsNodeWalk("NegatedClass") /\ walk.tok.chars # <<>>
    /\ walk.before.captures # <<>>
    /\ walk.res.err = "UnsupportedFeature"

\* the walked Quantifier with its greedy flag inverted, generated from the same
\* draws in the same context
GreedyTwin ==
    generate([walk.tok EXCEPT !.greedy = ~@], NewRng(walk.tape), walk.before)

\* C7: of two Quantifiers over the same literal with the same (min, max) that
\* differ only in the greedy flag, fed the same draws, the greedy one's output is
\* at least as long as the lazy one's.
C7_GreedyAtLeastLazy ==
    (/\ IsNodeWalk("Quantifier")
     /\ walk.tok.token.kind = "Literal" /\ walk.tok.min <= walk.tok.max)
       => /\ walk.res.ok /\ GreedyTwin.ok
          /\ IF walk.tok.greedy
             THEN ByteLen(walk.res.out) >= ByteLen(GreedyTwin.out)
             ELSE ByteLen(GreedyTwin.out) >= ByteLen(walk.res.out)

\* a greedy quantifier whose output is strictly longer than its lazy twin's
C7_Witness ==
    /\ IsNodeWalk("Quantifier") /\ walk.tok.token.kind = "Literal"
    /\ walk.tok.greedy /\ walk.tok.min < walk.tok.max
    /\ ByteLen(walk.res.out) > ByteLen(GreedyTwin.out)

\* C8: Token::generate on a Class with no characters and on an Alternation with
\* no branches fails with the internal error, returns no text and takes no draw.
C8_EmptyClassOrAlternationInternal ==
    (walk.src = "node" /\ walk.tok \in {Class(<<>>), Alternation(<<>>)})
       => ~walk.res.ok /\ walk.res.err = "Internal" /\ walk.res.rng = 0

\* the empty alternation generated, ending in the internal error
C8_Witness ==
    walk.src = "node" /\ walk.tok = Alternation(<<>>) /\ walk.res.err = "Internal"

\* a Backreference(id), id >= 1, generated in a context holding no text for id
IsUnresolvedBackrefWalk ==
    /\ IsNodeWalk("Backreference") /\ walk.tok.idx >= 1
    /\ ~IsSome(get_capture(walk.before, walk.tok.idx))

\* the context after exactly one unresolved entry (cursor, id) was appended
WithUnresolved(c, id) ==
    [c EXCEPT !.unresolved_refs = Append(@, <<c.current_output_len, id>>)]

\* C9 as claimed: Backreference(id), id >= 1, in a context holding no text for id
\* never fails, returns the empty string and appends one unresolved entry
\* (cursor, id); the pattern \1(a) walks to "a".
C9_ForwardReferenceNeverFails ==
    /\ IsUnresolvedBackrefWalk
          => /\ walk.res.ok /\ walk.res.out = <<>>
             /\ walk.res.ctx = WithUnresolved(walk.before, walk.tok.idx)
    /\ IsPatternWalk(PatForwardRef) => walk.res.ok /\ walk.res.out = <<"a">>

\* C9 as amended: Backreference(id), id >= 1, in a context whose capture table is
\* not empty but holds no text for id never fails, returns the empty string and
\* appends one unresolved entry (cursor, id); when the capture table is empty it
\* fails with BackreferenceError and records nothing, so the walk of \1(a) with a
\* fresh context fails at the reference.
C9_ForwardReferenceAmended ==
    /\ (IsUnresolvedBackrefWalk /\ walk.before.captures # <<>>)
          => /\ walk.res.ok /\ walk.res.out = <<>>
             /\ walk.res.ctx = WithUnresolved(walk.before, walk.tok.idx)
    /\ (IsUnresolvedBackrefWalk /\ walk.before.captures = <<>>)
          => /\ ~walk.res.ok /\ walk.res.err = "BackreferenceError"
             /\ walk.res.ctx = walk.before
    /\ IsPatternWalk(PatForwardRef)
          => /\ ~walk.res.ok /\ walk.res.err = "BackreferenceError"
             /\ walk.res.ctx.unresolved_refs = <<>>

\* Backreference(2) generated at cursor 1 in a context that holds group 1 only
C9_Witness ==
    /\ IsUnresolvedBackrefWalk /\ walk.tok.idx = 2
    /\ walk.before.captures = <<Some(<<"a">>)>>
    /\ walk.before.current_output_len = 1
    /\ walk.res.ok
    /\ walk.res.ctx.unresolved_refs = <<<<1, 2>>>>

\* C10: a standalone Backreference(id), id >= 1, generated in a freshly created
\* context returns an error, not text.
C10_StandaloneBackreferenceFails ==
    (/\ IsNodeWalk("Backreference") /\ walk.tok.idx >= 1
     /\ IsFresh(walk.before))
       => ~walk.res.ok

\* Backreference(1) generated in TokenContext::new(), failing
C10_Witness ==
    /\ IsNodeWalk("Backreference") /\ walk.tok.idx = 1
    /\ walk.before = TokenContextNew
    /\ walk.res.err = "BackreferenceError"

---------------------------------------------------------------------------
(* Properties of generate_one, under Spec *)

\* a generate_one call has returned Ok(s)
HasReturned == gen.built /\ call.pc = "done" /\ call.result.ok

\* C1: every string generate_one returns has a byte length within
\* [min_len, max_len] of the configuration the call ran with, and the
\* generator's matcher accepts it, whichever tactic produced it and whatever
\* the setters did between calls
C1_ReturnedWithinBoundsAndAccepted ==
    HasReturned =>
        /\ gen.config.min_len <= ByteLen(call.result.out)
        /\ ByteLen(call.result.out) <= gen.config.max_len
        /\ (AcceptsAll \/ call.result.out \in accepts.yes)

\* a compiled pattern has accepted two different texts, and the call that has
\* just returned one of them of exactly min_len = 2 bytes made no token
\* attempt: the string comes from the legacy pass
C1_Witness ==
    /\ HasReturned
    /\ gen.re = "pattern"
    /\ IsSome(gen.tokens)
    /\ call.attempts = 0
    /\ gen.config.min_len = 2
    /\ ByteLen(call.result.out) = 2
    /\ Cardinality(accepts.yes) >= 2

\* C5, as stated: once a token walk has hit a Quantifier with min > max, the
\* generate_one call is over and its result is the Internal error, neither
\* another attempt nor NoMatch
C5_InvertedQuantifierFatal ==
    (/\ gen.built
     /\ call.pc # "idle"
     /\ IsSome(gen.tokens)
     /\ HasInvertedQuantifier(Unwrap(gen.tokens))
     /\ call.node_err = "Internal")
    => (call.pc = "done" /\ ~call.result.ok /\ call.result.err = "Internal")

\* C11: build fails, with InvalidRegex, exactly when Regex::new rejects the
\* pattern and allow_backrefs is not set; with the flag set it always
\* succeeds, keeps the compiled pattern as matcher when the pattern compiles
\* and substitutes the matcher that accepts everything only when it does not
C11_BuildFailsIffUncompilableAndNoFlag ==
    gen # NoGen =>
        /\ ~gen.built <=> (~gen.compiles /\ ~gen.allow_backrefs)
        /\ ~gen.built => gen.err = "InvalidRegex"
        /\ gen.allow_backrefs => gen.built
        /\ gen.built => (gen.re = "pattern" <=> gen.compiles)
        /\ gen.built => (gen.re = "permissive" <=> ~gen.compiles)

\* a generator built with the flag from a pattern that compiles keeps the
\* compiled pattern as its matcher and has had a candidate rejected by it
C11_Witness ==
    /\ gen.built
    /\ gen.allow_backrefs
    /\ gen.compiles
    /\ gen.re = "pattern"
    /\ accepts.no # {}

\* a generate_one call on a generator that has a token tree
CallWithTokens == gen.built /\ IsSome(gen.tokens) /\ call.pc # "idle"

\* C12, as stated: a call whose token loop ended without a single attempt
\* (max_attempts = 0, or the deadline reached at the first check) returns
\* NoMatch and never a string
C12_TokenLoopExhaustedIsNoMatch ==
    (CallWithTokens /\ call.pc = "done" /\ call.attempts = 0)
    => (~call.result.ok /\ call.result.err = "NoMatch")

\* C13, as stated: no generate_one call of a generator that has a token tree
\* is ever in the legacy pass
C13_NoLegacyPassWithTokens ==
    CallWithTokens => call.pc # "legacy"

---------------------------------------------------------------------------
(* Properties of the tokenizer, under TokenSpec *)

RECURSIVE GroupIds(_)
RECURSIVE GroupIdsOf(_, _)

\* the identities of the Group nodes of a token list from position i on, each
\* group before the groups inside it, left to right
GroupIdsOf(tokens, i) ==
    IF i > Len(tokens) THEN <<>> ELSE GroupIds(tokens[i]) \o GroupIdsOf(tokens, i + 1)

\* the identities of the Group nodes of the tree under t
GroupIds(t) ==
    CASE t.kind = "Group" -> <<t.idx>> \o GroupIds(t.token)
      [] t.kind \in {"NonCapturingGroup", "Quantifier"} -> GroupIds(t.token)
      [] t.kind = "Concatenation" -> GroupIdsOf(t.tokens, 1)
      [] t.kind = "Alternation" -> GroupIdsOf(t.choices, 1)
      [] OTHER -> <<>>

\* whether the '(' at position i of the pattern opens a capturing group
OpensCapturing(pattern, i) ==
    /\ pattern[i] = "("
    /\ ~(i + 2 <= Len(pattern) /\ pattern[i + 1] = "?" /\ pattern[i + 2] = ":")

\* the number of capturing '(' of a pattern without escaped parentheses
CapturingOpens(pattern) ==
    Cardinality({i \in 1..Len(pattern) : OpensCapturing(pattern, i)})

\* a pattern has been tokenized with the group counter starting at 1
IsTokenized == walk.src = "pattern"

\* C14, as stated: the Group identities of a tokenized pattern, in the order
\* the groups open, are 1, 2, .., k for its k capturing '(': distinct, in
\* left-to-right order, none consumed by a non-capturing group
C14_GroupIdsFollowCapturingOpens ==
    IsTokenized =>
        GroupIdsOf(walk.tok, 1) = [k \in 1..CapturingOpens(walk.pattern) |-> k]

---------------------------------------------------------------------------
(* Properties of generate_one, under Spec, continued *)

\* the generator's token list has a negated class at its top level before any
\* other node that can fail: every walk of it ends in the node's error
NegatedOnEveryWalk ==
    /\ gen.built
    /\ IsSome(gen.tokens)
    /\ Unwrap(gen.tokens)[1].kind = "NegatedClass"

\* C15: for a pattern whose every walk hits a negated class, every token
\* attempt made is aborted by UnsupportedFeature and the call goes on; without
\* a timeout the call ends only after max_attempts attempts, and it ends with
\* NoMatch, never a string and never the UnsupportedFeature cause
C15_NegatedClassSpinsToNoMatch ==
    (NegatedOnEveryWalk /\ call.pc # "idle") =>
        /\ call.attempts >= 1 => call.node_err = "UnsupportedFeature"
        /\ (call.pc # "token" /\ ~IsSome(gen.config.timeout))
              => call.attempts = gen.config.max_attempts
        /\ call.pc = "done" => (~call.result.ok /\ call.result.err = "NoMatch")

\* a call on [^abc] without timeout has ended with NoMatch after two aborted
\* attempts
C15_Witness ==
    /\ NegatedOnEveryWalk
    /\ call.pc = "done"
    /\ ~IsSome(gen.config.timeout)
    /\ call.attempts = 2
    /\ call.node_err = "UnsupportedFeature"
    /\ call.result.err = "NoMatch"

\* a generate_n call has returned after one of its generate_one calls failed
BatchCutShort == batch.pc = "done" /\ Len(batch.out) < batch.n

\* C16, as stated: when a generate_one call fails during generate_n(n), the
\* result is Ok and holds the strings produced before the failure, fewer
\* than n
C16_GenerateNReturnsFewer ==
    BatchCutShort => (batch.result.ok /\ batch.result.strings = batch.out)

---------------------------------------------------------------------------
(* Properties of the command-line program, under CliSpec *)

ValueFlags == {FlagN, FlagSeed, FlagMin, FlagMax, FlagAttempts, FlagTimeoutMs}
SwitchFlags == {FlagMultiline, FlagAllowBackrefs, FlagVerbose}

RECURSIVE InvalidFrom(_, _)

\* whether an argument from position i on is invalid: an unknown flag, a flag
\* whose value is missing, or a value that is not a number
InvalidFrom(args, i) ==
    IF i > Len(args) THEN FALSE
    ELSE IF args[i] \in ValueFlags
    THEN \/ i + 1 > Len(args)
         \/ ~IsSome(ParseUsize(args[i + 1]))
         \/ InvalidFrom(args, i + 2)
    ELSE IF args[i] \in SwitchFlags THEN InvalidFrom(args, i + 1)
    ELSE TRUE

\* the pattern is missing or an argument after it is invalid
BadArgs(args) == args = <<>> \/ InvalidFrom(args, 2)

Exited == cli.ran /\ cli.pc = "exit"

\* C17, as stated: the program exits with 2 exactly when the pattern is
\* missing or an argument is invalid, with 1 exactly when the arguments are
\* valid and build or a generation failed, and otherwise with 0 after one
\* printed line for each of the n strings
C17_ExitCodes ==
    Exited =>
        /\ cli.code = Some(2) <=> BadArgs(cli.args)
        /\ cli.code = Some(1) <=> (~BadArgs(cli.args) /\ cli.failed)
        /\ cli.code = Some(0) <=> (~BadArgs(cli.args) /\ ~cli.failed)
        /\ cli.code = Some(0) => cli.printed = cli.opts.n

---------------------------------------------------------------------------
(* Properties of the tokenizer, under TokenSpec, continued *)

\* the number of '(' minus the number of ')' before position i
Depth(pattern, i) ==
    Cardinality({j \in 1..(i - 1) : pattern[j] = "("})
        - Cardinality({j \in 1..(i - 1) : pattern[j] = ")"})

\* the positions of the '|' the tokenizer meets at the top level of a pattern
\* without classes and escapes
TopBars(pattern) ==
    {i \in 1..Len(pattern) : pattern[i] = "|" /\ Depth(pattern, i) = 0}

FirstBar(pattern) == CHOOSE i \in TopBars(pattern) : \A j \in TopBars(pattern) : i <= j

PatAlternation3 == <<"a", "|", "b", "|", "c">>

EndsUnresolved ==
    /\ IsTokenized
    /\ walk.res.ok
    /\ walk.tok # <<>>
    /\ Last(walk.tok).kind = "Backreference"
    /\ ~IsSome(get_capture(walk.res.ctx, Last(walk.tok).idx))
    /\ walk.res.ctx.unresolved_refs # <<>>

\* C19, as stated, for a back-reference at the top level after a group: the
\* position of its unresolved entry is the number of bytes of the candidate
\* emitted before it
C19_UnresolvedPositionIsOverallOffset ==
    EndsUnresolved =>
        Last(walk.res.ctx.unresolved_refs)[1] = ByteLen(walk.res.out)

\* C20, as stated: a Quantifier with unbounded max repeats its node k times,
\* min <= k <= min + R, R being the max_repeat of the context it is given
C20_UnboundedCountWithinContextBound ==
    (/\ IsNodeWalk("Quantifier")
     /\ walk.tok.max = USIZE_MAX
     /\ walk.tok.token.kind = "Literal")
    => /\ walk.res.ok
       /\ walk.tok.min <= Len(walk.res.out)
       /\ Len(walk.res.out) <= walk.tok.min + walk.before.max_repeat

---------------------------------------------------------------------------
(* The tokenizer's quantifier arms *)

\* C21: every Quantifier node of every tree the tokenizer produces has
\* min <= max, whatever numbers are written in a {m,n} quantifier
C21_TokenizedQuantifierMinLeMax ==
    IsTokenized => ~HasInvertedQuantifier(walk.tok)

RECURSIVE LexSteps(_, _, _, _)
\* the iterations of the while loop of lex_pattern on chars from index i on:
\* the character matched, its index, the tokens before and after its arm
LexSteps(chars, i, tokens, ng) ==
    IF i > Len(chars) THEN {}
    ELSE LET s == LexStep(chars, chars[i], i + 1, tokens, ng)
         IN {[c |-> chars[i], i |-> i, before |-> tokens, after |-> s.tokens]}
            \cup (IF s.stop THEN {} ELSE LexSteps(chars, s.i, s.tokens, s.ng))

\* (min, max) of the operators '?', '*' and '+'
OperatorMin(c) == IF c = "+" THEN 1 ELSE 0
OperatorMax(c) == IF c = "?" THEN 1 ELSE USIZE_MAX

\* C22: a '?', '*' or '+' met with a node before it replaces that node by a
\* Quantifier over it with bounds (0,1), (0,unbounded), (1,unbounded), greedy
\* unless the next character is '?', whatever character follows the operator
C22_OperatorRewrapsLastNode ==
    IsTokenized =>
        \A st \in LexSteps(walk.pattern, 1, <<>>, 1) :
            st.c \in {"?", "*", "+"} /\ st.before # <<>> =>
                LET lazy == st.i + 1 <= Len(walk.pattern) /\ walk.pattern[st.i + 1] = "?"
                IN st.after = Append(Popped(st.before),
                                     Quantifier(Last(st.before), OperatorMin(st.c),
                                                OperatorMax(st.c), ~lazy))

---------------------------------------------------------------------------
(* A group inside a repeated quantifier *)

\* group 1 completed twice by its quantifier, then referred to
TreeRepeatedGroup ==
    Concatenation(<<Quantifier(Group(Class(<<"a", "b">>), 1), 2, 2, TRUE), Backreference(1)>>)

\* C23: after a Group with identity id has completed several times in one walk,
\* the capture table entry for id is the text of the last completion only, a
\* later Backreference(id) returns exactly that text, and the entries of other
\* identities are unchanged
C23_LastCompletionWins ==
    (walk.src = "node" /\ walk.tok = TreeRepeatedGroup) =>
        LET out == walk.res.out
            before == walk.before.captures
            after == walk.res.ctx.captures
        IN /\ walk.res.ok
           /\ Len(out) = 3
           /\ get_capture(walk.res.ctx, 1) = Some(<<out[2]>>)
           /\ out[3] = out[2]
           /\ Len(after) = Max2(Len(before), 1)
           /\ \A id \in 2..Len(after) : after[id] = before[id]

\* the two completions differ and the context held a capture of group 2
C23_Witness ==
    /\ walk.src = "node" /\ walk.tok = TreeRepeatedGroup
    /\ walk.res.ok
    /\ walk.res.out[1] # walk.res.out[2]
    /\ IsSome(get_capture(walk.before, 2))
    /\ IsSome(get_capture(walk.before, 1))
    /\ get_capture(walk.before, 1) # get_capture(walk.res.ctx, 1)

---------------------------------------------------------------------------
(* The budget of a generate_one call and the ways it ends *)

\* C24, as stated: every candidate of a generate_one call is started with
\* attempts left and after a deadline check that found time left. The legacy
\* pass generates one candidate, so a call that stands in it must have made
\* fewer than max_attempts attempts and cannot have a deadline of zero
C24_CandidatesWithinBudget ==
    (gen.built /\ call.pc # "idle") =>
        /\ call.attempts <= gen.config.max_attempts
        /\ call.pc = "legacy" =>
              /\ call.attempts < gen.config.max_attempts
              /\ gen.config.timeout # Some(0)

\* C27, as stated: a generate_one call ends with a string or with NoMatch,
\* never with a panic or another error kind, for every pattern and every
\* configuration, min_len > max_len and max_attempts = 0 included
C27_EndsWithStringOrNoMatch ==
    (gen.built /\ call.pc = "done") =>
        (call.result.ok \/ call.result.err = "NoMatch")

---------------------------------------------------------------------------
(* Classes the tokenizer produces *)

\* C26, as stated: no tree the tokenizer produces holds a Class node whose
\* character set is empty
C26_NoEmptyClassTokenized ==
    IsTokenized =>
        \A t \in NodesOf(walk.tok) : t.kind = "Class" => t.chars # <<>>

---------------------------------------------------------------------------
(* Groups in the branches of an Alternation *)

\* a choice between group 1 and group 2, then a reference to each
TreeBranchGroups ==
    Concatenation(<<Alternation(<<Group(Literal("x"), 1), Group(Literal("y"), 2)>>),
                    Backreference(1), Backreference(2)>>)

\* the text a capture table holds for an identity, empty when it holds none
CapturedText(c, id) ==
    IF IsSome(get_capture(c, id)) THEN Unwrap(get_capture(c, id)) ELSE <<>>

\* C29: generating an Alternation walks exactly one branch: the group of the
\* branch that was not chosen records nothing, its entry is what it was before
\* the walk, and a later back-reference to it yields no text of this walk
C29_UnchosenBranchRecordsNothing ==
    (walk.src = "node" /\ walk.tok = TreeBranchGroups) =>
        LET chosen == IF walk.tape[1] % 2 = 0 THEN 1 ELSE 2
            other == 3 - chosen
            text == IF chosen = 1 THEN <<"x">> ELSE <<"y">>
            stale == CapturedText(walk.before, other)
        IN /\ walk.res.ok
           /\ Len(walk.tape) = 1
           /\ get_capture(walk.res.ctx, chosen) = Some(text)
           /\ get_capture(walk.res.ctx, other) = get_capture(walk.before, other)
           /\ walk.res.out = IF chosen = 1 THEN text \o text \o stale
                             ELSE text \o stale \o text

\* branch 2 was chosen in a fresh context: group 1 has no entry and the
\* reference to it is recorded as unresolved
C29_Witness ==
    /\ walk.src = "node" /\ walk.tok = TreeBranchGroups
    /\ IsFresh(walk.before)
    /\ walk.res.out = <<"y", "y">>
    /\ get_capture(walk.res.ctx, 1) = None
    /\ walk.res.ctx.unresolved_refs # <<>>

---------------------------------------------------------------------------
(* The context of a token attempt *)

\* a token attempt of the call in flight has been made
IsAttempt == gen.built /\ IsSome(gen.tokens) /\ walk.src = "attempt"

\* C25: every token attempt of generate_one starts with an empty capture table
\* and an empty unresolved list, and its outcome is one that a walk in a new
\* context produces: no text captured by an attempt before it, an aborted one
\* included, is returned by a back-reference
C25_AttemptStartsFresh ==
    IsAttempt =>
        /\ IsFresh(walk.before)
        /\ \E tape \in AttemptTapes :
              LET r == WalkTokens(Unwrap(gen.tokens), 1, <<>>, NewRng(tape), TokenContextNew)
              IN /\ walk.res = [ok |-> r.ok, err |-> r.err, out |-> r.out]
                 /\ ctx = r.ctx

\* the attempt before this one left a capture of group 1, and in this attempt
\* the reference to group 1 found an empty table and failed
C25_Witness ==
    /\ IsAttempt
    /\ walk.prev.captures # <<>>
    /\ IsSome(get_capture(walk.prev, 1))
    /\ ~walk.res.ok
    /\ walk.res.err = "BackreferenceError"
    /\ ctx.captures = <<>>
    /\ call.attempts = 2

---------------------------------------------------------------------------
(* Two generators built alike *)

=============================================================================
